---- MODULE Spec2Model ----
(***************************************************************************)
(* Model of package maze (setanarut/maze): NewMaze, Maze.Generate,         *)
(* Maze.dfs and Maze.Size.  The recursion of dfs is unfolded into a call   *)
(* stack with one frame per active dfs call; each frame keeps its cell and *)
(* the part of `dirs` the range loop has not reached yet.                  *)
(***************************************************************************)
EXTENDS Integers, Sequences, FiniteSets, TLC

\* ---- bounds of the model ------------------------------------------------
MaxSide == 2
MaxCells == 4
MaxCellSize == 2
MaxWall == 1
NPerms == 2

VARIABLES
  Grid,           \* m.Grid: rows 0..R-1 of columns 0..C-1, 0 path, 1 wall
  Visited,        \* m.Visited: rows 0..h-1 of columns 0..w-1
  Rnd,            \* m.Rnd: "nil", or the seed pair and the number of Perm calls
  CellSize,       \* m.CellSize
  WallThickness,  \* m.WallThickness
  Cols,           \* m.Cols
  Rows,           \* m.Rows
  pc,             \* "idle" | "run" (inside Generate) | "panic"
  stack,          \* active dfs calls, innermost last
  args,           \* the arguments NewMaze was called with
  generated,      \* Generate has been called on the instance
  sizeRet,        \* value returned by Size() since the last Generate, else <<>>
  order,          \* history: cells in the order dfs entered them (this Generate)
  parent,         \* history: for each cell, the cell whose dfs call entered it
  skipped,        \* history: some bounds check of this Generate skipped a write
  track,          \* TRUE when the outputs of the random source are recorded
  pcg             \* recorded outputs of the random source, per seed pair

vars == <<Grid, Visited, Rnd, CellSize, WallThickness, Cols, Rows, pc, stack,
          args, generated, sizeRet, order, parent, skipped, track, pcg>>

mfields == <<CellSize, WallThickness, Cols, Rows>>

\* ---- the random source --------------------------------------------------
\* Seed pairs passed to Generate (those of examples/demo/main.go).
Seeds == {<<0, 1>>, <<0, 3>>}

\* The 24 results Rnd.Perm(4) can return.
PermList ==
  << <<0,1,2,3>>, <<3,2,1,0>>, <<2,3,0,1>>, <<1,0,3,2>>, <<0,3,2,1>>, <<2,1,0,3>>,
     <<0,1,3,2>>, <<0,2,1,3>>, <<0,2,3,1>>, <<0,3,1,2>>, <<1,0,2,3>>, <<1,2,0,3>>,
     <<1,2,3,0>>, <<1,3,0,2>>, <<1,3,2,0>>, <<2,0,1,3>>, <<2,0,3,1>>, <<2,1,3,0>>,
     <<2,3,1,0>>, <<3,0,1,2>>, <<3,0,2,1>>, <<3,1,0,2>>, <<3,1,2,0>>, <<3,2,0,1>> >>

Perms == {PermList[i] : i \in 1..Len(PermList)}

\* The outputs considered when the stream of each seed pair is recorded; the
\* first two present every pair of directions in both orders.
TrackedPerms == {PermList[i] : i \in 1..(IF NPerms < Len(PermList) THEN NPerms ELSE Len(PermList))}

\* ---- slices -------------------------------------------------------------
\* make([]T, n) filled with v: indices 0..n-1 (empty when n = 0).
MakeSlice(n, v) == [i \in 0..(n - 1) |-> v]

\* len(s) of a slice.
SliceLen(s) == Cardinality(DOMAIN s)

\* ---- construction ----------------------------------------------------
\* NewMaze(w, h, cellSize, wallThickness).  make panics on a negative length;
\* the inner make of a row runs only when there is a row.
NewMaze(w, h, cellSize, wallThickness) ==
  LET R == h * cellSize + (h + 1) * wallThickness
      C == w * cellSize + (w + 1) * wallThickness
      panics == \/ R < 0
                \/ (R > 0 /\ C < 0)
                \/ h < 0
                \/ (h > 0 /\ w < 0)
  IN  IF panics
      THEN [panic |-> TRUE, Grid |-> <<>>, Visited |-> <<>>,
            CellSize |-> 0, WallThickness |-> 0, Cols |-> 0, Rows |-> 0]
      ELSE [panic |-> FALSE,
            Grid |-> MakeSlice(R, MakeSlice(C, 0)),
            Visited |-> MakeSlice(h, MakeSlice(w, FALSE)),
            CellSize |-> cellSize, WallThickness |-> wallThickness,
            Cols |-> w, Rows |-> h]

\* Arguments the spec allows: cols > 0, rows > 0, cellSize > 0, wallThickness >= 0.
ValidArgs(a) == a[1] > 0 /\ a[2] > 0 /\ a[3] > 0 /\ a[4] >= 0

\* Valid arguments tried: <<w, h, cellSize, wallThickness>>, each side at most
\* MaxSide and at most MaxCells cells.
ValidArgSet ==
  {a \in (1..MaxSide) \X (1..MaxSide) \X (1..MaxCellSize) \X (0..MaxWall) :
     a[1] * a[2] <= MaxCells}

\* Invalid arguments tried: each argument negative, zero or one, not all valid.
InvalidArgSet ==
  {a \in ((-1)..1) \X ((-1)..1) \X ((-1)..1) \X ((-1)..1) : ~ValidArgs(a)}

ArgSet == ValidArgSet \cup InvalidArgSet

NilRnd == [seed |-> <<>>, pos |-> 0]

InitWith(A, t) ==
  /\ args \in A
  /\ LET m == NewMaze(args[1], args[2], args[3], args[4])
     IN  /\ pc = IF m.panic THEN "panic" ELSE "idle"
         /\ Grid = m.Grid
         /\ Visited = m.Visited
         /\ CellSize = m.CellSize
         /\ WallThickness = m.WallThickness
         /\ Cols = m.Cols
         /\ Rows = m.Rows
  /\ Rnd = NilRnd
  /\ stack = <<>>
  /\ generated = FALSE
  /\ sizeRet = <<>>
  /\ order = <<>>
  /\ parent = [cell \in (0..(Rows - 1)) \X (0..(Cols - 1)) |-> <<-1, -1>>]
  /\ skipped = FALSE
  /\ track = t
  /\ pcg = [s \in Seeds |-> <<>>]

Init == InitWith(ArgSet, FALSE)

\* ---- pixel geometry of dfs ------------------------------------------------
\* StartY without the border wall above the first row of cells.
StartYNoBorder(r) == r * (CellSize + WallThickness)

StartY(r) == WallThickness + r * (CellSize + WallThickness)
StartX(c) == WallThickness + c * (CellSize + WallThickness)

\* CellPixels with both loops running one pixel too far.
CellPixelsOneMore(r, c) ==
  {<<StartY(r) + y, StartX(c) + x>> : y \in 0..CellSize, x \in 0..CellSize}

\* The <<wy, wx>> the cell-fill loops of dfs(r, c) compute.
CellPixels(r, c) ==
  {<<StartY(r) + y, StartX(c) + x>> : y \in 0..(CellSize - 1), x \in 0..(CellSize - 1)}

\* WallPixels whose case "up" starts at startY instead of startY - WallThickness.
WallPixelsUpInsideCell(dir, r, c) ==
  CASE dir = 0 ->
         {<<StartY(r) + y, StartX(c) + x>> :
            y \in 0..(WallThickness - 1), x \in 0..(CellSize - 1)}
    [] dir = 1 ->
         {<<StartY(r) + y, StartX(c) - WallThickness + x>> :
            y \in 0..(CellSize - 1), x \in 0..(WallThickness - 1)}
    [] dir = 2 ->
         {<<StartY(r) + CellSize + y, StartX(c) + x>> :
            y \in 0..(WallThickness - 1), x \in 0..(CellSize - 1)}
    [] dir = 3 ->
         {<<StartY(r) + y, StartX(c) + CellSize + x>> :
            y \in 0..(CellSize - 1), x \in 0..(WallThickness - 1)}

\* The <<wy, wx>> the wall-opening loops of dfs(r, c) compute for direction dir.
WallPixels(dir, r, c) ==
  CASE dir = 0 ->
         {<<StartY(r) - WallThickness + y, StartX(c) + x>> :
            y \in 0..(WallThickness - 1), x \in 0..(CellSize - 1)}
    [] dir = 1 ->
         {<<StartY(r) + y, StartX(c) - WallThickness + x>> :
            y \in 0..(CellSize - 1), x \in 0..(WallThickness - 1)}
    [] dir = 2 ->
         {<<StartY(r) + CellSize + y, StartX(c) + x>> :
            y \in 0..(WallThickness - 1), x \in 0..(CellSize - 1)}
    [] dir = 3 ->
         {<<StartY(r) + y, StartX(c) + CellSize + x>> :
            y \in 0..(CellSize - 1), x \in 0..(WallThickness - 1)}

\* The bounds check guarding every pixel write.
InGrid(G, wy, wx) ==
  wy >= 0 /\ wy < SliceLen(G) /\ wx >= 0 /\ wx < SliceLen(G[0])

\* G after the guarded writes of 0 to the computed pixels px.
Carve(G, px) ==
  LET written == {p \in px : InGrid(G, p[1], p[2])}
  IN  [y \in DOMAIN G |->
         [x \in DOMAIN G[y] |-> IF <<y, x>> \in written THEN 0 ELSE G[y][x]]]

\* Some computed pixel of px fails the bounds check (its write is skipped).
Clipped(G, px) == \E p \in px : ~InGrid(G, p[1], p[2])

\* ---- the dfs loop ---------------------------------------------------------
\* nr, nc of the switch on dir.
Neighbor(dir, r, c) ==
  CASE dir = 0 -> <<r - 1, c>>
    [] dir = 1 -> <<r, c - 1>>
    [] dir = 2 -> <<r + 1, c>>
    [] dir = 3 -> <<r, c + 1>>

\* Viable whose case "down" tests nr < m.Rows - 1.
ViableDownOffByOne(V, dir, r, c) ==
  LET n == Neighbor(dir, r, c)
  IN  /\ CASE dir = 0 -> n[1] >= 0
            [] dir = 1 -> n[2] >= 0
            [] dir = 2 -> n[1] < Rows - 1
            [] dir = 3 -> n[2] < Cols
      /\ ~V[n[1]][n[2]]

\* The if of each case: the one-sided bound, then the visited flag.
Viable(V, dir, r, c) ==
  LET n == Neighbor(dir, r, c)
  IN  /\ CASE dir = 0 -> n[1] >= 0
            [] dir = 1 -> n[2] >= 0
            [] dir = 2 -> n[1] < Rows
            [] dir = 3 -> n[2] < Cols
      /\ ~V[n[1]][n[2]]

\* m.Rnd.Perm(4) returns p.  With track, the random source is a function of
\* the seed pair and the number of earlier Perm calls: an output returned
\* once for <<seed, pos>> is returned again.
Perm(rnd, p) ==
  /\ IF ~track
     THEN p \in Perms /\ pcg' = pcg
     ELSE IF rnd.pos < Len(pcg[rnd.seed])
          THEN p = pcg[rnd.seed][rnd.pos + 1] /\ pcg' = pcg
          ELSE p \in TrackedPerms /\ pcg' = [pcg EXCEPT ![rnd.seed] = Append(@, p)]
  /\ Rnd' = [rnd EXCEPT !.pos = @ + 1]

\* Entry of dfs(r, c) up to the range loop: mark, fill the block, draw dirs.
\* G, V, rnd, stk, sk, ord, par are the values at the call; from is the
\* caller's cell.
Enter(G, V, rnd, stk, sk, ord, par, r, c, from) ==
  /\ Visited' = [V EXCEPT ![r][c] = TRUE]
  /\ Grid' = Carve(G, CellPixels(r, c))
  /\ skipped' = (sk \/ Clipped(G, CellPixels(r, c)))
  /\ \E p \in Perms :
       /\ Perm(rnd, p)
       /\ stack' = Append(stk, [r |-> r, c |-> c, dirs |-> p])
  /\ order' = Append(ord, <<r, c>>)
  /\ parent' = [par EXCEPT ![<<r, c>>] = from]

Top == stack[Len(stack)]

\* The stack with the loop of the innermost call advanced by one direction.
Advance == [stack EXCEPT ![Len(stack)].dirs = Tail(@)]

NoCell == <<-1, -1>>

\* Generate without the loop resetting the matrix.
ResetGridMissing(G) == G

\* The loop resetting the matrix to all walls.
ResetGrid(G) == [y \in DOMAIN G |-> [x \in DOMAIN G[y] |-> 1]]

\* Generate without the loop resetting the visited matrix.
ResetVisitedMissing(V) == V

\* The loop resetting the visited matrix.
ResetVisited(V) == [i \in DOMAIN V |-> [j \in DOMAIN V[i] |-> FALSE]]

\* Generate(seed1, seed2): reseed, reset Grid and Visited, call dfs(0, 0).
\* m.Visited[0][0] panics (index out of range) when there is no cell (0, 0).
Generate(seed) ==
  /\ pc = "idle"
  /\ generated' = TRUE
  /\ LET G1 == ResetGrid(Grid)
         V1 == ResetVisited(Visited)
         rnd == [seed |-> seed, pos |-> 0]
     IN  IF 0 \in DOMAIN V1 /\ 0 \in DOMAIN V1[0]
         THEN /\ pc' = "run"
              /\ Enter(G1, V1, rnd, <<>>, FALSE, <<>>,
                       [cell \in DOMAIN parent |-> NoCell], 0, 0, NoCell)
         ELSE /\ pc' = "panic"
              /\ Grid' = G1 /\ Visited' = V1 /\ Rnd' = rnd
              /\ UNCHANGED <<stack, order, parent, skipped, pcg>>
  /\ sizeRet' = <<>>
  /\ UNCHANGED <<mfields, args, track>>

\* One iteration of the range loop of the innermost dfs(r, c) whose if holds:
\* open the wall towards the neighbour and call dfs(nr, nc).
DfsCall ==
  /\ pc = "run"
  /\ stack # <<>>
  /\ Top.dirs # <<>>
  /\ LET r == Top.r
         c == Top.c
         dir == Head(Top.dirs)
         n == Neighbor(dir, r, c)
         G1 == Carve(Grid, WallPixels(dir, r, c))
     IN  /\ Viable(Visited, dir, r, c)
         /\ Enter(G1, Visited, Rnd, Advance,
                  skipped \/ Clipped(Grid, WallPixels(dir, r, c)),
                  order, parent, n[1], n[2], <<r, c>>)
  /\ UNCHANGED <<mfields, pc, args, generated, sizeRet, track>>

\* One iteration of the range loop whose if fails: nothing is written.
DfsSkip ==
  /\ pc = "run"
  /\ stack # <<>>
  /\ Top.dirs # <<>>
  /\ ~Viable(Visited, Head(Top.dirs), Top.r, Top.c)
  /\ stack' = Advance
  /\ UNCHANGED <<Grid, Visited, Rnd, mfields, pc, args, generated, sizeRet,
                 order, parent, skipped, track, pcg>>

\* The range loop of the innermost dfs call is over: the call returns; the
\* return of dfs(0, 0) is the return of Generate.
DfsReturn ==
  /\ pc = "run"
  /\ stack # <<>>
  /\ Top.dirs = <<>>
  /\ stack' = SubSeq(stack, 1, Len(stack) - 1)
  /\ pc' = IF Len(stack) = 1 THEN "idle" ELSE "run"
  /\ UNCHANGED <<Grid, Visited, Rnd, mfields, args, generated, sizeRet,
                 order, parent, skipped, track, pcg>>

\* Size counting one wall per axis, as rect.MazeGenerator.Size does.
SizeOfOneWall ==
  << Cols * CellSize + WallThickness, Rows * CellSize + WallThickness >>

\* The image.Point that m.Size() returns: <<X, Y>>.
SizeOf ==
  << Cols * CellSize + (Cols + 1) * WallThickness,
     Rows * CellSize + (Rows + 1) * WallThickness >>

\* A call of m.Size() between Generate calls.
Size ==
  /\ pc = "idle"
  /\ sizeRet' = SizeOf
  /\ UNCHANGED <<Grid, Visited, Rnd, mfields, pc, stack, args, generated,
                 order, parent, skipped, track, pcg>>

\* Seed pairs tried.  Without the recording every output is possible whatever
\* the seed pair, so one pair stands for all.
SeedChoices == IF track THEN Seeds ELSE {<<0, 1>>}

Next ==
  \/ \E seed \in SeedChoices : Generate(seed)
  \/ DfsCall
  \/ DfsSkip
  \/ DfsReturn
  \/ Size

Spec == Init /\ [][Next]_vars

\* ---- dfs as the recursion the source writes -------------------------------
\* The call dfs(r, c) run to its return on st = [G, V, pos, order]: the grid,
\* the visited matrix, the number of Perm calls made and the cells entered so
\* far; stream[k + 1] is what the (k+1)-th Perm call of this Generate returns.
RECURSIVE DfsRec(_, _, _, _), LoopRec(_, _, _, _, _), LoopRecBackwards(_, _, _, _, _)

\* The range loop running over dirs from its last element to its first.
LoopRecBackwards(st, r, c, dirs, stream) ==
  IF dirs = <<>>
  THEN st
  ELSE LET dir == dirs[Len(dirs)]
           n == Neighbor(dir, r, c)
           rest == SubSeq(dirs, 1, Len(dirs) - 1)
       IN  IF Viable(st.V, dir, r, c)
           THEN LoopRec(DfsRec([st EXCEPT !.G = Carve(@, WallPixels(dir, r, c))],
                               n[1], n[2], stream),
                        r, c, rest, stream)
           ELSE LoopRec(st, r, c, rest, stream)

\* The range loop of dfs(r, c) over the directions dirs still to try.
LoopRec(st, r, c, dirs, stream) ==
  IF dirs = <<>>
  THEN st
  ELSE LET dir == Head(dirs)
           n == Neighbor(dir, r, c)
       IN  IF Viable(st.V, dir, r, c)
           THEN LoopRec(DfsRec([st EXCEPT !.G = Carve(@, WallPixels(dir, r, c))],
                               n[1], n[2], stream),
                        r, c, Tail(dirs), stream)
           ELSE LoopRec(st, r, c, Tail(dirs), stream)

DfsRec(st, r, c, stream) ==
  LoopRec([G |-> Carve(st.G, CellPixels(r, c)),
           V |-> [st.V EXCEPT ![r][c] = TRUE],
           pos |-> st.pos + 1,
           order |-> Append(st.order, <<r, c>>)],
          r, c, stream[st.pos + 1], stream)

\* Generate on an instance holding grid G and visited matrix V, the random
\* source returning stream: reset, then dfs(0, 0).
GenerateRec(G, V, stream) ==
  DfsRec([G |-> ResetGrid(G), V |-> ResetVisited(V), pos |-> 0, order |-> <<>>],
         0, 0, stream)

\* The same program with the outputs of the random source recorded per seed
\* pair, on valid arguments with the largest cells and the widest walls.
PCGArgSet == {a \in ValidArgSet : a[3] = MaxCellSize /\ a[4] = MaxWall}

InitPCG == InitWith(PCGArgSet, TRUE)

SpecPCG == InitPCG /\ [][Next]_vars

\* ---- vocabulary of the properties ------------------------------------------
\* The geometry below is written from the arguments of NewMaze, not from the
\* coordinates dfs computes.
ACols == args[1]
ARows == args[2]
ACell == args[3]
AWall == args[4]

Valid == ValidArgs(args)

\* Generate has returned at least once and no call is running.
Done == pc = "idle" /\ generated

Cells == (0..(ARows - 1)) \X (0..(ACols - 1))

\* Pixel rows (columns) of the block of cell row r (cell column c).
BlockY(r) == (AWall + r * (ACell + AWall))..(AWall + r * (ACell + AWall) + ACell - 1)
BlockX(c) == (AWall + c * (ACell + AWall))..(AWall + c * (ACell + AWall) + ACell - 1)

Block(cell) == BlockY(cell[1]) \X BlockX(cell[2])

\* Pixel rows (columns) of the wall between cell rows (columns) i and i + 1.
GapY(i) == (AWall + i * (ACell + AWall) + ACell)..(AWall + (i + 1) * (ACell + AWall) - 1)
GapX(i) == (AWall + i * (ACell + AWall) + ACell)..(AWall + (i + 1) * (ACell + AWall) - 1)

Lower(i, j) == IF i < j THEN i ELSE j

\* The wall strip separating two orthogonally adjacent cells (empty otherwise).
Strip(a, b) ==
  IF a[1] = b[1] /\ (a[2] - b[2] = 1 \/ b[2] - a[2] = 1)
  THEN BlockY(a[1]) \X GapX(Lower(a[2], b[2]))
  ELSE IF a[2] = b[2] /\ (a[1] - b[1] = 1 \/ b[1] - a[1] = 1)
  THEN GapY(Lower(a[1], b[1])) \X BlockX(a[2])
  ELSE {}

\* Pairs of orthogonally adjacent cells, each pair once.
AdjacentPairs ==
  {e \in Cells \X Cells :
     \/ (e[1][1] = e[2][1] /\ e[2][2] = e[1][2] + 1)
     \/ (e[1][2] = e[2][2] /\ e[2][1] = e[1][1] + 1)}

Pixels == UNION {{<<y, x>> : x \in DOMAIN Grid[y]} : y \in DOMAIN Grid}

OpenPixels == {p \in Pixels : Grid[p[1]][p[2]] = 0}

AllOpen(px) == \A p \in px : p \in OpenPixels
AllWall(px) == \A p \in px : p \in Pixels /\ Grid[p[1]][p[2]] = 1

OpenConnections == Cardinality({e \in AdjacentPairs : AllOpen(Strip(e[1], e[2]))})

Adjacent4(p) ==
  {<<p[1] - 1, p[2]>>, <<p[1] + 1, p[2]>>, <<p[1], p[2] - 1>>, <<p[1], p[2] + 1>>}

\* Flood fill: the open pixels reachable from seen through 4-adjacent open pixels.
RECURSIVE Flood(_)
Flood(seen) ==
  LET more == seen \cup {q \in OpenPixels : \E p \in seen : q \in Adjacent4(p)}
  IN  IF more = seen THEN seen ELSE Flood(more)

FloodFromOrigin == Flood(Block(<<0, 0>>) \cap OpenPixels)

\* ---- C1 ---------------------------------------------------------------------
\* C1: on valid arguments, after Generate returns, flood-filling open pixels
\* from the block of cell (0,0) reaches every pixel of the block of every cell.
C1_Connectivity ==
  (Valid /\ Done) => \A cell \in Cells : Block(cell) \subseteq FloodFromOrigin

\* A 2x2 maze with real walls whose far cell is reached.
C1_Witness ==
  /\ Valid /\ Done
  /\ ACols = 2 /\ ARows = 2 /\ AWall >= 1
  /\ Block(<<1, 1>>) \subseteq FloodFromOrigin

\* ---- C2 ---------------------------------------------------------------------
\* C2 as stated: on valid arguments (wallThickness >= 0), after Generate
\* returns, the number of open inter-cell connections is rows*cols - 1.
C2_Original ==
  (Valid /\ Done) => OpenConnections = ARows * ACols - 1

\* C2 amended: the count is rows*cols - 1 when wallThickness >= 1 or the cells
\* form a single row or column; every wall strip is then entirely open or
\* entirely wall.
C2_Acyclic ==
  (Valid /\ Done /\ (AWall >= 1 \/ ACols = 1 \/ ARows = 1)) =>
     /\ OpenConnections = ARows * ACols - 1
     /\ \A e \in AdjacentPairs :
          AllOpen(Strip(e[1], e[2])) \/ AllWall(Strip(e[1], e[2]))

\* A 2x2 maze with walls: three of the four walls between cells are open.
C2_Witness ==
  /\ Valid /\ Done
  /\ ACols = 2 /\ ARows = 2 /\ AWall >= 1
  /\ OpenConnections = 3

\* ---- C3 ---------------------------------------------------------------------
\* The grid Generate(seed) leaves on a freshly constructed instance.
FreshGrid(seed) ==
  LET m == NewMaze(args[1], args[2], args[3], args[4])
  IN  GenerateRec(m.Grid, m.Visited, pcg[seed]).G

\* C3: whatever Generate calls came before, after Generate(seed) returns the
\* grid is the one Generate(seed) produces on a fresh instance of the same
\* configuration.
C3_Determinism ==
  Done => /\ Len(pcg[Rnd.seed]) >= ARows * ACols
          /\ Grid = FreshGrid(Rnd.seed)

\* A 2x2 instance on which Generate has returned for both seed pairs, whose
\* streams start differently: the last call ran on a used instance.
C3_Witness ==
  /\ Done /\ ACols = 2 /\ ARows = 2 /\ AWall >= 1
  /\ \A s \in Seeds : Len(pcg[s]) >= 4
  /\ pcg[<<0, 1>>][1] # pcg[<<0, 3>>][1]
  /\ Grid = FreshGrid(Rnd.seed)

\* ---- C4 ---------------------------------------------------------------------
\* C4: on valid arguments, after Generate returns, no pixel of the outer
\* wallThickness-pixel border is open.
C4_Enclosed ==
  (Valid /\ Done) =>
     \A p \in Pixels :
        (\/ p[1] < AWall
         \/ p[1] >= SliceLen(Grid) - AWall
         \/ p[2] < AWall
         \/ p[2] >= SliceLen(Grid[0]) - AWall) => Grid[p[1]][p[2]] # 0

\* A generated 2x2 maze with a border: its first and last pixels are wall.
C4_Witness ==
  /\ Valid /\ Done /\ ACols = 2 /\ ARows = 2 /\ AWall >= 1
  /\ Grid[0][0] = 1
  /\ Grid[SliceLen(Grid) - 1][SliceLen(Grid[0]) - 1] = 1

\* ---- C5 ---------------------------------------------------------------------
ExpectedSize ==
  <<ACols * ACell + (ACols + 1) * AWall, ARows * ACell + (ARows + 1) * AWall>>

C5_State ==
  (Valid /\ pc # "panic") =>
     /\ SizeOf = ExpectedSize
     /\ SizeOf = <<SliceLen(Grid[0]), SliceLen(Grid)>>
     /\ \A y \in DOMAIN Grid : SliceLen(Grid[y]) = SizeOf[1]
     /\ <<Cols, Rows, CellSize, WallThickness>> = args
     /\ (sizeRet # <<>> => sizeRet = ExpectedSize)

C5_Step ==
  /\ (sizeRet' # <<>> /\ sizeRet' # sizeRet) =>
        UNCHANGED <<Grid, Visited, Rnd, mfields, pc, stack>>
  /\ DOMAIN Grid' = DOMAIN Grid
  /\ \A y \in DOMAIN Grid : DOMAIN Grid'[y] = DOMAIN Grid[y]
  /\ mfields' = mfields

C6_Validation ==
  LET m == NewMaze(args[1], args[2], args[3], args[4])
  IN  /\ ~Valid => (m.panic /\ pc = "panic")
      /\ Valid => ~m.panic

\* ---- C7 ---------------------------------------------------------------------
\* C7: on any instance NewMaze returned, Generate never fails: no step of it
\* panics.
C7_NoFailure ==
  ~NewMaze(args[1], args[2], args[3], args[4]).panic => pc # "panic"

\* ---- C8 ---------------------------------------------------------------------
\* Number of times dfs was entered for cell in the current Generate.
Entries(cell) == Cardinality({i \in 1..Len(order) : order[i] = cell})

RECURSIVE LoopWork(_)
\* Loop iterations and returns the active calls still owe without further calls.
LoopWork(stk) ==
  IF stk = <<>> THEN 0 ELSE Len(Head(stk).dirs) + 1 + LoopWork(Tail(stk))

\* Each unvisited cell may still cost one call: four iterations, one return
\* and the iteration of its caller that makes the call.
Rank ==
  6 * Cardinality({cell \in Cells : ~Visited[cell[1]][cell[2]]}) + LoopWork(stack)

C8_State ==
  Valid =>
     /\ Len(stack) <= ARows * ACols
     /\ Rank >= 0
     /\ \A i \in 1..Len(order) : order[i] \in Cells
     /\ \A cell \in Cells : Entries(cell) <= 1
     /\ Done => /\ \A cell \in Cells : Entries(cell) = 1
                /\ \A cell \in Cells : Visited[cell[1]][cell[2]]

C8_Step == (Valid /\ pc = "run") => Rank' < Rank

\* C8: on valid arguments Generate terminates (every step of a running
\* Generate lowers a non-negative rank), dfs is entered at most once per cell
\* and only for cells of the grid, the nesting depth never exceeds rows*cols,
\* and when Generate returns every cell was entered once and is visited.
C8_Termination == []C8_State /\ [][C8_Step]_vars

\* Generate on a 2x2 instance has returned after entering four cells.
C8_Witness ==
  /\ Valid /\ Done /\ ACols = 2 /\ ARows = 2
  /\ Len(order) = 4
  /\ \A cell \in Cells : Visited[cell[1]][cell[2]]

\* ---- C9 ---------------------------------------------------------------------
\* The recursion run on the instance with the stream the random source
\* returned for the seed pair of the last Generate.
Recursive == GenerateRec(Grid, Visited, pcg[Rnd.seed])

\* C9: when Generate returns, the frame stack has entered the cells in the
\* order the recursion enters them, made as many Perm calls, and left the same
\* Grid and Visited.
C9_Equivalence ==
  Done => /\ Len(pcg[Rnd.seed]) >= ARows * ACols
          /\ Recursive = [order |-> order, pos |-> Rnd.pos, G |-> Grid, V |-> Visited]

\* A 2x2 run that went right, down, left: the down direction of cell (0,0) is
\* tried after its neighbour was visited through the other three cells.
C9_Witness ==
  /\ Done /\ ACols = 2 /\ ARows = 2
  /\ order = << <<0, 0>>, <<0, 1>>, <<1, 1>>, <<1, 0>> >>
  /\ Recursive = [order |-> order, pos |-> 4, G |-> Grid, V |-> Visited]

\* ---- C10 --------------------------------------------------------------------
\* The pixels the claim expects open: every cell block, and the strip between
\* each cell other than (0,0) and the cell dfs entered it from.
ExpectedOpen ==
  UNION {Block(cell) : cell \in Cells}
    \cup UNION {Strip(parent[cell], cell) : cell \in Cells \ {<<0, 0>>}}

\* C10: on valid arguments no bounds check ever skips a write, every pixel is
\* 0 or 1, and after Generate returns the open pixels are exactly the cell
\* blocks and the strips towards each cell's first entry; all others are wall.
C10_Pixels ==
  Valid =>
     /\ ~skipped
     /\ \A y \in DOMAIN Grid : \A x \in DOMAIN Grid[y] : Grid[y][x] \in {0, 1}
     /\ Done => /\ OpenPixels = ExpectedOpen
                /\ \A p \in Pixels \ ExpectedOpen : Grid[p[1]][p[2]] = 1
                /\ \A cell \in Cells \ {<<0, 0>>} : parent[cell] \in Cells

\* A 2x2 maze of 2-pixel cells and 1-pixel walls: the post at the crossing of
\* the walls stays wall, and cell (1,1) was entered from (0,1).
C10_Witness ==
  /\ Valid /\ Done /\ args = <<2, 2, 2, 1>>
  /\ Grid[3][3] = 1
  /\ parent[<<1, 1>>] = <<0, 1>>
  /\ OpenPixels = ExpectedOpen

====
